---- MODULE Spec2Model ----
(***************************************************************************)
(* A model of the AIFlowConuting transaction pipeline:                     *)
(*   - TransactionDataProcessor (data_management/transactions.py): schema  *)
(*     detection, row mapping, type and amount normalization, process();   *)
(*   - run_pipeline (process_and_annotate.py): normalize, annotate, write; *)
(*   - TransactionReportGenerator._summarize (analyze/report_generator.py).*)
(* Text is modelled as a sequence of one-character strings, so that        *)
(* str.strip, str.replace, substring tests and Decimal parsing are         *)
(* computed rather than assumed.                                           *)
(***************************************************************************)
EXTENDS Integers, Sequences, FiniteSets, TLC

\* ------------------------------------------------------------------ bounds
\* Longest raw amount text given to _normalize_amount in SpecAmount.
MaxAmountLen == 4

\* ------------------------------------------------------------------- text
Range(s) == {s[i] : i \in 1..Len(s)}

\* All sequences over S of length at most n.
SeqsUpTo(S, n) == UNION {[1..k -> S] : k \in 0..n}

\* The characters str.strip() removes (the ASCII space stands for them).
Whitespace == {" "}

RECURSIVE LStrip(_)
LStrip(s) ==
    IF s # <<>> /\ Head(s) \in Whitespace THEN LStrip(Tail(s)) ELSE s

RECURSIVE RStrip(_)
RStrip(s) ==
    IF s # <<>> /\ s[Len(s)] \in Whitespace
    THEN RStrip(SubSeq(s, 1, Len(s) - 1))
    ELSE s

\* str.strip()
Strip(s) == RStrip(LStrip(s))

\* str.replace(c, "") for a one-character c
RemoveChar(s, c) == SelectSeq(s, LAMBDA x : x # c)

\* `sub in s` for strings
Contains(sub, s) ==
    \E i \in 1..(Len(s) - Len(sub) + 1) : SubSeq(s, i, i + Len(sub) - 1) = sub

\* ----------------------------------------------------------------- Decimal
DigitChars == <<"0", "1", "2", "3", "4", "5", "6", "7", "8", "9">>

Digits == Range(DigitChars)

DigitVal(c) == CHOOSE d \in 0..9 : DigitChars[d + 1] = c

RECURSIVE Pow10(_)
Pow10(k) == IF k = 0 THEN 1 ELSE 10 * Pow10(k - 1)

\* The number a string of decimal digits denotes (the empty string: 0).
RECURSIVE DigitsToNat(_)
DigitsToNat(ds) ==
    IF ds = <<>> THEN 0
    ELSE 10 * DigitsToNat(SubSeq(ds, 1, Len(ds) - 1)) + DigitVal(ds[Len(ds)])

\* str(n) for a natural number n.
RECURSIVE NatToDigits(_)
NatToDigits(n) ==
    IF n < 10 THEN <<DigitChars[n + 1]>>
    ELSE NatToDigits(n \div 10) \o <<DigitChars[(n % 10) + 1]>>

NaNText == <<"N", "a", "N">>

\* Decimal(text): the value the constructor builds, or kind "invalid" where it
\* raises InvalidOperation.  A value is a sign, a coefficient and an exponent
\* (-scale); a NaN keeps its sign and its diagnostic payload.
ParseDecimal(text) ==
    LET signed == text # <<>> /\ Head(text) \in {"-", "+"}
        neg    == text # <<>> /\ Head(text) = "-"
        body   == IF signed THEN Tail(text) ELSE text
        dots   == {i \in 1..Len(body) : body[i] = "."}
        bad    == [kind |-> "invalid", neg |-> FALSE, coeff |-> 0, scale |-> 0]
    IN  IF /\ Len(body) >= 3
           /\ SubSeq(body, 1, 3) = NaNText
           /\ \A i \in 4..Len(body) : body[i] \in Digits
        THEN [kind |-> "nan", neg |-> neg,
              coeff |-> DigitsToNat(SubSeq(body, 4, Len(body))), scale |-> 0]
        ELSE IF /\ Cardinality(dots) <= 1
                /\ \A i \in 1..Len(body) : body[i] \in Digits \cup {"."}
                /\ \E i \in 1..Len(body) : body[i] \in Digits
        THEN LET ds == RemoveChar(body, ".")
                 sc == IF dots = {} THEN 0
                       ELSE Len(body) - (CHOOSE i \in dots : TRUE)
             IN  [kind |-> "num", neg |-> neg,
                  coeff |-> DigitsToNat(ds), scale |-> sc]
        ELSE bad

\* quantize that takes the coefficient for a whole number of units, whatever
\* the exponent of the value.
QuantizeCentsIgnoreScale(d) == d.coeff * 100

\* Decimal.quantize(Decimal('0.01')) on a number, under the default context
\* (ROUND_HALF_EVEN): the coefficient at scale 2.
QuantizeCents(d) ==
    IF d.scale <= 2 THEN d.coeff * Pow10(2 - d.scale)
    ELSE LET k    == d.scale - 2
             q    == d.coeff \div Pow10(k)
             r    == d.coeff % Pow10(k)
             half == 5 * Pow10(k - 1)
         IN  IF r > half \/ (r = half /\ q % 2 = 1) THEN q + 1 ELSE q

\* format(Decimal) of a value whose exponent is -2: sign, integer part, ".",
\* two fractional digits.  The sign is kept even when the value is zero.
FormatCents(neg, cents) ==
    (IF neg THEN <<"-">> ELSE <<>>)
      \o NatToDigits(cents \div 100)
      \o <<".", DigitChars[((cents \div 10) % 10) + 1], DigitChars[(cents % 10) + 1]>>

\* format(Decimal) of a NaN: sign, "NaN", the payload when it is not zero.
FormatNaN(d) ==
    (IF d.neg THEN <<"-">> ELSE <<>>) \o NaNText
      \o (IF d.coeff = 0 THEN <<>> ELSE NatToDigits(d.coeff))

\* _normalize_amount without the quantize step: the cleaned text is returned
\* as it was parsed.
NormalizeAmountNoQuantize(value) ==
    LET stripped == Strip(RemoveChar(RemoveChar(value, "¥"), ","))
        cleaned  == IF stripped = <<>> THEN <<"0">> ELSE stripped
        d        == ParseDecimal(cleaned)
    IN  IF d.kind = "invalid" THEN [ok |-> FALSE, text |-> value]
        ELSE [ok |-> TRUE, text |-> cleaned]

\* TransactionDataProcessor._normalize_amount: ok with the canonical text, or
\* not ok (ValueError "Invalid amount value: {value}") carrying the raw text.
NormalizeAmount(value) ==
    LET stripped == Strip(RemoveChar(RemoveChar(value, "¥"), ","))
        cleaned  == IF stripped = <<>> THEN <<"0">> ELSE stripped
        d        == ParseDecimal(cleaned)
    IN  IF d.kind = "invalid" THEN [ok |-> FALSE, text |-> value]
        ELSE IF d.kind = "nan" THEN [ok |-> TRUE, text |-> FormatNaN(d)]
        ELSE [ok |-> TRUE, text |-> FormatCents(d.neg, QuantizeCents(d))]

\* ------------------------------------------------------------- variables
VARIABLES
    amountIn,      \* SpecAmount: the raw amount text
    amountOut,     \* SpecAmount: <<>> before the call, then <<its result>>,
                   \* then <<its result, the result of normalizing that>>
    typeIn,        \* SpecType: the raw income/expense marker
    typeOut,       \* SpecType: <<>> before the call, then <<its result>>
    \* _summarize (report_generator.py)
    aggPc,         \* "idle", "fold" (inside the for loop), "done", "error"
    aggProfile,    \* which bounded family of inputs this run draws its rows from
    aggRows,       \* the rows the loop has consumed so far, in order
    total_income,  \* Decimal, in cents
    total_expense, \* Decimal, in cents
    income_count,
    expense_count,
    report_time,
    summaries,     \* the dict tag -> CategorySummary, as its values in insertion order
    expense_rows,  \* the list of expense-detail rows
    report,        \* <<>> until _summarize returns, then <<ReportData>>
    \* process() and run_pipeline
    entry,         \* "process" (transactions.main) or "pipeline" (run_pipeline)
    shape,         \* config data_sources: the number of paths of each source
    pc,            \* where the run is: "idle", "parse", "rows", "write",
                   \* "annotate", "write_annotated", "done", "failed"
    error,         \* <<>>, or <<the exception that ended the run>>
    srcIdx,        \* the source the outer loop of process() is at
    fileIdx,       \* the path of that source the inner loop is at
    rowIdx,        \* rows of the open file read so far
    totalRows,     \* rows read so far in the run
    fileHeader,    \* reader.fieldnames of the open file
    fileSchema,    \* what _detect_schema returned for the open file
    detectCalls,   \* calls of _detect_schema made for the open file
    fileRecords,   \* _parse_file's local list `records`
    records,       \* process()'s list `records`
    lastRow,       \* <<>>, or <<the raw row the parser was last called with>>
    lastOutcome,   \* what that call did: "none", "skip", "emit", "error"
    filesParsed,   \* files whose _parse_file call has returned
    emitted,       \* rows for which a parser returned a record
    outInitial,    \* the output file when the run started (<<>>: absent)
    outFile,       \* the output file now: <<>>, or <<[header, rows]>>
    annotated,     \* _annotate_records' list `annotated`
    annotateCalls, \* calls of annotator.annotate made
    written        \* rows of the list being written that are in the file

amtVars == <<amountIn, amountOut, typeIn, typeOut>>

aggVars == <<aggPc, aggProfile, aggRows, total_income, total_expense,
             income_count, expense_count, report_time, summaries,
             expense_rows, report>>

pipeVars == <<entry, shape, pc, error, srcIdx, fileIdx, rowIdx, totalRows,
              fileHeader, fileSchema, detectCalls, fileRecords, records,
              lastRow, lastOutcome, filesParsed, emitted, outInitial, outFile,
              annotated, annotateCalls, written>>

vars == <<amtVars, aggVars, pipeVars>>

\* Nothing of _summarize is running.
AggIdle ==
    /\ aggPc = "idle" /\ aggProfile = "none" /\ aggRows = <<>>
    /\ total_income = 0 /\ total_expense = 0
    /\ income_count = 0 /\ expense_count = 0
    /\ report_time = <<>> /\ summaries = <<>> /\ expense_rows = <<>>
    /\ report = <<>>

\* Nothing of process() or run_pipeline is running.
PipeIdle ==
    /\ entry = "none" /\ shape = <<>> /\ pc = "idle" /\ error = <<>>
    /\ srcIdx = 0 /\ fileIdx = 0 /\ rowIdx = 0 /\ totalRows = 0
    /\ fileHeader = <<>> /\ fileSchema = "none" /\ detectCalls = 0
    /\ fileRecords = <<>> /\ records = <<>>
    /\ lastRow = <<>> /\ lastOutcome = "none"
    /\ filesParsed = 0 /\ emitted = 0
    /\ outInitial = <<>> /\ outFile = <<>>
    /\ annotated = <<>> /\ annotateCalls = 0 /\ written = 0

\* ------------------------------------------------ SpecAmount: pure function
\* The characters raw amount texts are drawn from.
AmountChars == {"¥", ",", " ", "-", ".", "0", "1", "5", "N", "a"}

AmountTexts == SeqsUpTo(AmountChars, MaxAmountLen)

TypeIdle == typeIn = <<>> /\ typeOut = <<>>

AmtIdle == amountIn = <<>> /\ amountOut = <<>> /\ TypeIdle

InitAmount ==
    /\ amountIn \in AmountTexts
    /\ amountOut = <<>>
    /\ TypeIdle
    /\ AggIdle
    /\ PipeIdle

ApplyNormalizeAmount ==
    /\ amountOut = <<>>
    /\ amountOut' = <<NormalizeAmount(amountIn)>>
    /\ UNCHANGED <<amountIn, typeIn, typeOut, aggVars, pipeVars>>

\* _normalize_amount called on the text an accepting call returned.
ApplyNormalizeAmountAgain ==
    /\ Len(amountOut) = 1
    /\ amountOut[1].ok
    /\ amountOut' = Append(amountOut, NormalizeAmount(amountOut[1].text))
    /\ UNCHANGED <<amountIn, typeIn, typeOut, aggVars, pipeVars>>

NextAmount == ApplyNormalizeAmount \/ ApplyNormalizeAmountAgain

SpecAmount == InitAmount /\ [][NextAmount]_vars

\* -------------------------------------------------------------- C9
\* A canonical amount text: optional "-", at least one digit, ".", two digits.
TwoFractionDigits(text) ==
    LET n == Len(text)
    IN  /\ n >= 4
        /\ text[n - 2] = "."
        /\ text[n - 1] \in Digits /\ text[n] \in Digits
        /\ text[n - 3] \in Digits
        /\ \A i \in 1..(n - 3) : text[i] \in Digits \/ (i = 1 /\ text[i] = "-")

\* The amount text denotes a number below zero.
IsNegativeAmount(text) ==
    /\ text # <<>> /\ Head(text) = "-"
    /\ \E i \in 1..Len(text) : text[i] \in Digits \ {"0"}

MaxMixedRows == 4

\* Rows of the bulk input family: more than TopN expenses must fit.
MaxBulkRows == 12

\* expense_rows[:10]
TopN == 10

\* A character outside ASCII is written as the pinyin of the character: "shou"
\* is the one character U+6536, "zhi" U+652F, and so on.
\* "收入"
Income == <<"shou", "ru">>

\* "支出"
Expense == <<"zhi", "chu">>

\* "不计收支"
Uncounted == <<"bu", "ji", "shou", "zhi">>

\* The fallback tag "其他".
OtherTag == <<"qi", "ta">>

\* "餐饮"
Dining == <<"can", "yin">>

\* "交通"
Transport == <<"jiao", "tong">>

Period05 == <<"2", "0", "2", "4", "-", "0", "5">>

Period06 == <<"2", "0", "2", "4", "-", "0", "6">>

\* dict.get(key, default)
Get(row, key, default) == IF key \in DOMAIN row THEN row[key] ELSE default

\* dict.get(key) or other: a missing key (None) and "" are both falsy.
GetOr(row, key, other) ==
    IF key \in DOMAIN row /\ row[key] # <<>> THEN row[key] ELSE other

\* Text of a Decimal amount with two fractional digits.
Money(units) == NatToDigits(units) \o <<".", "0", "0">>

\* The rows of the mixed family, before their transaction_time is stamped.
MixedRows == {
    [transaction_type |-> Income, amount |-> Money(1000), tag |-> <<>>,
     category_name |-> Income, report_time |-> Period05],
    [transaction_type |-> Expense, amount |-> Money(37), tag |-> Dining,
     category_name |-> Dining, report_time |-> Period05],
    [transaction_type |-> Expense, amount |-> Money(200), tag |-> <<>>,
     report_time |-> <<>>],
    [transaction_type |-> Expense, amount |-> Money(37), tag |-> <<" ">>,
     category_name |-> Transport, report_time |-> Period06],
    [transaction_type |-> Uncounted, amount |-> Money(5), tag |-> Dining,
     report_time |-> Period06],
    [transaction_type |-> Expense, amount |-> <<>>, tag |-> <<>>,
     category_name |-> <<" ">> \o Dining, report_time |-> <<>>],
    [transaction_type |-> Expense, amount |-> <<"a", "b", "c">>, tag |-> Dining,
     report_time |-> Period05],
    [transaction_type |-> <<" ">> \o Expense \o <<" ">>,
     amount |-> <<"-">> \o Money(163), tag |-> Transport]
}

\* The rows of the bulk family: expenses of two categories and two amounts.
BulkRows == {
    [transaction_type |-> Expense, amount |-> Money(1), tag |-> Dining,
     report_time |-> Period05],
    [transaction_type |-> Expense, amount |-> Money(2), tag |-> Transport,
     report_time |-> Period05]
}

RowChoices(profile) == IF profile = "mixed" THEN MixedRows ELSE BulkRows

RowLimit(profile) == IF profile = "mixed" THEN MaxMixedRows ELSE MaxBulkRows

\* The n-th row of the input: the chosen row with the n-th timestamp and
\* counterparty, so that every input row is distinguishable.
StampRow(row, n) ==
    [k \in DOMAIN row \cup {"transaction_time", "counterparty"} |->
        IF k = "transaction_time" THEN <<"t">> \o NatToDigits(n)
        ELSE IF k = "counterparty" THEN <<"c">> \o NatToDigits(n)
        ELSE row[k]]

\* Decimal(row.get("amount", "0") or "0"); Decimal() ignores surrounding
\* whitespace.
RowDecimal(row) == ParseDecimal(Strip(GetOr(row, "amount", <<"0">>)))

\* The value of a parsed number in cents (numbers of the input families have
\* at most two fractional digits).
DecimalCents(d) ==
    (IF d.neg THEN -1 ELSE 1) * d.coeff * Pow10(2 - d.scale)

\* The tag without the second fallback: a blank tag stays the empty text.
RowTagNoFallback(row) ==
    Strip(GetOr(row, "tag", GetOr(row, "category_name", OtherTag)))

\* (row.get("tag") or row.get("category_name") or "其他").strip() or "其他"
RowTag(row) ==
    LET raw == GetOr(row, "tag", GetOr(row, "category_name", OtherTag))
        st  == Strip(raw)
    IN  IF st = <<>> THEN OtherTag ELSE st

\* (row.get("transaction_type") or "").strip()
RowType(row) == Strip(GetOr(row, "transaction_type", <<>>))

\* report_time = row.get("report_time", report_time)
RowReportTime(row, previous) == Get(row, "report_time", previous)

\* summaries.setdefault(tag, ...).add(amount) that adds to every summary.
AddToSummaryAll(sums, tag, amount) ==
    IF \E i \in 1..Len(sums) : sums[i].category_name = tag
    THEN [i \in 1..Len(sums) |->
            [sums[i] EXCEPT !.total_amount = @ + amount, !.count = @ + 1]]
    ELSE Append(sums, [category_name |-> tag, total_amount |-> amount, count |-> 1])

\* setdefault(...) whose new summary misses the add(): it starts with count 0.
AddToSummaryNoCount(sums, tag, amount) ==
    IF \E i \in 1..Len(sums) : sums[i].category_name = tag
    THEN [i \in 1..Len(sums) |->
            IF sums[i].category_name = tag
            THEN [sums[i] EXCEPT !.total_amount = @ + amount, !.count = @ + 1]
            ELSE sums[i]]
    ELSE Append(sums, [category_name |-> tag, total_amount |-> amount, count |-> 0])

\* summary = summaries.setdefault(tag, CategorySummary(tag, Decimal("0"), 0))
\* summary.add(amount)
AddToSummary(sums, tag, amount) ==
    IF \E i \in 1..Len(sums) : sums[i].category_name = tag
    THEN [i \in 1..Len(sums) |->
            IF sums[i].category_name = tag
            THEN [sums[i] EXCEPT !.total_amount = @ + amount, !.count = @ + 1]
            ELSE sums[i]]
    ELSE Append(sums, [category_name |-> tag, total_amount |-> amount, count |-> 1])

\* The expense-detail row appended for an expense.
ExpenseRow(row, tag, amount) ==
    [transaction_time |-> Get(row, "transaction_time", <<>>),
     counterparty |-> Get(row, "counterparty", <<>>),
     description |-> Get(row, "description", <<>>),
     tag |-> tag,
     amount |-> amount]

Reverse(s) == [i \in 1..Len(s) |-> s[Len(s) + 1 - i]]

\* One element put into an ascending list after every element whose key is
\* not greater (the step of a stable sort).
InsertStable(sorted, x, field) ==
    LET after == {i \in 1..Len(sorted) : sorted[i][field] <= x[field]}
        n     == IF after = {} THEN 0 ELSE CHOOSE i \in after : \A j \in after : j <= i
    IN  SubSeq(sorted, 1, n) \o <<x>> \o SubSeq(sorted, n + 1, Len(sorted))

\* list.sort(key=...): a stable ascending sort.
RECURSIVE StableSortAsc(_, _)
StableSortAsc(s, field) ==
    IF s = <<>> THEN <<>>
    ELSE InsertStable(StableSortAsc(SubSeq(s, 1, Len(s) - 1), field), s[Len(s)], field)

\* A descending sort that reverses the ascending one only afterwards: equal
\* keys come out in reverse order.
SortDescendingUnstable(s, field) == Reverse(StableSortAsc(s, field))

\* sorted(..., key=..., reverse=True) and list.sort(key=..., reverse=True):
\* CPython reverses the list, sorts it ascending and stable, and reverses the
\* result, which keeps equal keys in their original order.
SortDescending(s, field) == Reverse(StableSortAsc(Reverse(s), field))

\* expense_rows[:n]
Take(s, n) == SubSeq(s, 1, IF Len(s) < n THEN Len(s) ELSE n)

InitAgg ==
    /\ AmtIdle
    /\ PipeIdle
    /\ aggPc = "fold"
    /\ aggProfile \in {"mixed", "bulk"}
    /\ aggRows = <<>>
    /\ total_income = 0 /\ total_expense = 0
    /\ income_count = 0 /\ expense_count = 0
    /\ report_time = <<>>
    /\ summaries = <<>>
    /\ expense_rows = <<>>
    /\ report = <<>>

\* One iteration of `for row in rows` (report_generator.py lines 60-85).
SummarizeRow ==
    /\ aggPc = "fold"
    /\ Len(aggRows) < RowLimit(aggProfile)
    /\ \E choice \in RowChoices(aggProfile) :
        LET row    == StampRow(choice, Len(aggRows) + 1)
            d      == RowDecimal(row)
            amount == DecimalCents(d)
            tag    == RowTag(row)
            type   == RowType(row)
        IN  /\ aggRows' = Append(aggRows, row)
            /\ IF d.kind # "num"
               THEN /\ aggPc' = "error"
                    /\ UNCHANGED <<total_income, total_expense, income_count,
                                   expense_count, report_time, summaries,
                                   expense_rows>>
               ELSE /\ aggPc' = "fold"
                    /\ report_time' = RowReportTime(row, report_time)
                    /\ total_income' =
                         IF type = Income THEN total_income + amount ELSE total_income
                    /\ income_count' =
                         IF type = Income THEN income_count + 1 ELSE income_count
                    /\ total_expense' =
                         IF type = Expense THEN total_expense + amount ELSE total_expense
                    /\ expense_count' =
                         IF type = Expense THEN expense_count + 1 ELSE expense_count
                    /\ summaries' =
                         IF type = Expense THEN AddToSummary(summaries, tag, amount)
                         ELSE summaries
                    /\ expense_rows' =
                         IF type = Expense
                         THEN Append(expense_rows, ExpenseRow(row, tag, amount))
                         ELSE expense_rows
    /\ UNCHANGED <<aggProfile, report, amtVars, pipeVars>>

\* The end of the input: the two sorts, the truncation and the returned
\* ReportData (report_generator.py lines 87-102).
SummarizeFinish ==
    /\ aggPc = "fold"
    /\ aggPc' = "done"
    /\ expense_rows' = SortDescending(expense_rows, "amount")
    /\ report' = <<[report_time   |-> report_time,
                    total_income  |-> total_income,
                    total_expense |-> total_expense,
                    income_count  |-> income_count,
                    expense_count |-> expense_count,
                    categories    |-> SortDescending(summaries, "total_amount"),
                    top_expenses  |-> Take(expense_rows', TopN)]>>
    /\ UNCHANGED <<aggProfile, aggRows, total_income, total_expense,
                   income_count, expense_count, report_time, summaries, amtVars,
                   pipeVars>>

NextAgg == SummarizeRow \/ SummarizeFinish

SpecAgg == InitAgg /\ [][NextAgg]_vars

\* ----------------------------------------------------- C1, C2, C3, C10
RECURSIVE SumField(_, _)
SumField(s, field) ==
    IF s = <<>> THEN 0 ELSE s[1][field] + SumField(Tail(s), field)

\* The positions of the expense rows in the consumed input.
ExpenseIdx == {i \in 1..Len(aggRows) : RowType(aggRows[i]) = Expense}

InputAmount(i) == DecimalCents(RowDecimal(aggRows[i]))

RECURSIVE SumInput(_)
SumInput(idx) ==
    IF idx = {} THEN 0
    ELSE LET i == CHOOSE x \in idx : TRUE
         IN  InputAmount(i) + SumInput(idx \ {i})

\* C1: total_expense of the returned ReportData equals the sum of
\* total_amount over its categories (and over the running summaries at every
\* point of the fold), which is the sum of the amounts of the expense rows of
\* the input: nothing is counted twice or left out.
C1_TotalExpenseIsSumOfCategories ==
    /\ aggPc \in {"fold", "done"} =>
          /\ total_expense = SumField(summaries, "total_amount")
          /\ total_expense = SumInput(ExpenseIdx)
    /\ report # <<>> =>
          report[1].total_expense = SumField(report[1].categories, "total_amount")

\* C1 witness: a report over two categories, one of them fed by two rows,
\* beside an income row.
C1_Witness ==
    /\ report # <<>>
    /\ Len(report[1].categories) = 2
    /\ \E i \in 1..2 : report[1].categories[i].count = 2
    /\ report[1].total_expense > 0
    /\ report[1].income_count = 1

\* C2: expense_count equals the sum of count over the categories and the
\* number of expense-detail rows accumulated before the truncation.
C2_ExpenseCountIsSumOfCounts ==
    /\ aggPc \in {"fold", "done"} =>
          /\ expense_count = SumField(summaries, "count")
          /\ expense_count = Len(expense_rows)
    /\ report # <<>> =>
          /\ report[1].expense_count = SumField(report[1].categories, "count")
          /\ report[1].expense_count = Len(expense_rows)
          /\ report[1].expense_count = Cardinality(ExpenseIdx)

\* C2 witness: a report whose top_expenses was truncated, so that the count
\* is that of the rows before the truncation.
C2_Witness ==
    /\ report # <<>>
    /\ report[1].expense_count > TopN
    /\ Len(report[1].top_expenses) < report[1].expense_count
    /\ Len(report[1].categories) = 2

\* Input expense i comes before input expense j in the stable descending
\* order: a larger amount, or the same amount and an earlier row.
Before(i, j) ==
    \/ InputAmount(i) > InputAmount(j)
    \/ InputAmount(i) = InputAmount(j) /\ i < j

\* The input row in which the category was first seen.
FirstSeen(name) ==
    LET rows == {i \in ExpenseIdx : RowTag(aggRows[i]) = name}
    IN  CHOOSE i \in rows : \A j \in rows : i <= j

\* C3: categories is non-increasing by total_amount and top_expenses by
\* amount, equal amounts keep their first-seen order, and top_expenses is the
\* first min(10, expense_count) rows of the stable descending order of all
\* expense rows.
C3_SortedStableTopTen ==
    report # <<>> =>
        LET cats == report[1].categories
            top  == report[1].top_expenses
        IN  /\ Len(cats) = Len(summaries) /\ Range(cats) = Range(summaries)
            /\ \A a, b \in 1..Len(cats) : a < b =>
                  /\ cats[a].total_amount >= cats[b].total_amount
                  /\ cats[a].total_amount = cats[b].total_amount =>
                        FirstSeen(cats[a].category_name)
                            < FirstSeen(cats[b].category_name)
            /\ Len(top) <= TopN
            /\ Len(top) = (IF report[1].expense_count < TopN
                           THEN report[1].expense_count ELSE TopN)
            /\ \A a, b \in 1..Len(top) : a < b => top[a].amount >= top[b].amount
            /\ \A k \in 1..Len(top) :
                  \E i \in ExpenseIdx :
                      /\ aggRows[i]["transaction_time"] = top[k].transaction_time
                      /\ InputAmount(i) = top[k].amount
                      /\ RowTag(aggRows[i]) = top[k].tag
                      /\ Cardinality({j \in ExpenseIdx : Before(j, i)}) = k - 1

\* C3 witness: more than ten expenses, two categories of equal total, and two
\* rows of equal amount inside the top ten of which a third, larger row was
\* read later.
C3_Witness ==
    /\ report # <<>>
    /\ report[1].expense_count > TopN
    /\ Len(report[1].top_expenses) = TopN
    /\ Len(report[1].categories) = 2
    /\ report[1].categories[1].total_amount = report[1].categories[2].total_amount
    /\ report[1].top_expenses[TopN].amount = report[1].top_expenses[TopN - 1].amount
    /\ report[1].top_expenses[1].amount > report[1].top_expenses[TopN].amount
    /\ InputAmount(1) < InputAmount(Len(aggRows))

\* The last non-empty report_time value of the consumed rows ("" when none).
LastNonEmptyPeriod ==
    LET idx == {i \in 1..Len(aggRows) : GetOr(aggRows[i], "report_time", <<>>) # <<>>}
    IN  IF idx = {} THEN <<>>
        ELSE aggRows[CHOOSE i \in idx : \A j \in idx : j <= i]["report_time"]

\* C10 as claimed: report_time of the ReportData is the last non-empty
\* report-period value of the input; a later empty value does not overwrite
\* an earlier non-empty one.
C10_LastNonEmptyPeriodWins ==
    report # <<>> => report[1].report_time = LastNonEmptyPeriod

\* ------------------------------------------- TransactionDataProcessor
\* Rows one run reads from all its files together.
MaxTotalRows == 4

\* "未知"
Unknown == <<"wei", "zhi1">>

\* "不计"
NotCountedMarker == <<"bu", "ji">>

\* "交易时间"
TimeCol == <<"jiao", "yi", "shi", "jian">>

\* "交易对方"
CounterpartyCol == <<"jiao", "yi", "dui", "fang">>

\* "商品说明"
AlipayDescCol == <<"shang", "pin", "shuo", "ming">>

\* "商品"
WechatDescCol == <<"shang", "pin">>

\* "备注"
RemarkCol == <<"bei", "zhu">>

\* "收/支"
TypeCol == <<"shou", "/", "zhi">>

\* "金额"
AlipayAmountCol == <<"jin", "e">>

\* "金额(元)"
WechatAmountCol == <<"jin", "e", "(", "yuan", ")">>

\* OUTPUT_FIELDS
OUTPUT_FIELDS == <<"transaction_time", "counterparty", "transaction_type",
                   "description", "amount", "source", "report_time", "tag">>

\* ANNOTATION_FIELDS
ANNOTATION_FIELDS == <<"category_id", "category_name", "category_reason">>

\* metadata.report_time of the config, stripped and not empty.
ConfigReportTime == Period05

\* metadata.tag of the config, stripped.
ConfigTag == <<>>

\* The keys of data_sources, in the order of the config.
SourceName(s) == IF s = 1 THEN <<"a", "l", "i">> ELSE <<"w", "x">> \o NatToDigits(s)

\* _normalize_type that looks for the income markers before the expense marker.
NormalizeTypeIncomeFirst(value) ==
    LET normalized == Strip(value)
    IN  IF normalized = <<>> THEN Unknown
        ELSE IF Contains(NotCountedMarker, normalized) THEN Uncounted
        ELSE IF Contains(<<"shou">>, normalized) \/ Contains(<<"ru">>, normalized)
             THEN Income
        ELSE IF Contains(<<"zhi">>, normalized) THEN Expense
        ELSE normalized

\* TransactionDataProcessor._normalize_type
NormalizeType(value) ==
    LET normalized == Strip(value)
    IN  IF normalized = <<>> THEN Unknown
        ELSE IF Contains(NotCountedMarker, normalized) THEN Uncounted
        ELSE IF Contains(<<"zhi">>, normalized) THEN Expense
        ELSE IF Contains(<<"shou">>, normalized) \/ Contains(<<"ru">>, normalized)
             THEN Income
        ELSE normalized

\* _detect_schema that looks for the alipay header first.
DetectSchemaAlipayFirst(fieldnames) ==
    LET normalized == [i \in 1..Len(fieldnames) |-> Strip(fieldnames[i])]
    IN  IF AlipayAmountCol \in Range(normalized) THEN "alipay"
        ELSE IF WechatAmountCol \in Range(normalized) THEN "wechat"
        ELSE "error"

\* TransactionDataProcessor._detect_schema: "wechat", "alipay", or "error"
\* for ValueError("Unable to detect schema for csv file").
DetectSchema(fieldnames) ==
    LET normalized == [i \in 1..Len(fieldnames) |-> Strip(fieldnames[i])]
    IN  IF WechatAmountCol \in Range(normalized) THEN "wechat"
        ELSE IF AlipayAmountCol \in Range(normalized) THEN "alipay"
        ELSE "error"

Skipped == [kind |-> "skip", record |-> <<>>, text |-> <<>>]

\* A row parser that does not filter on the transaction type.
MapRowNoTypeFilter(row, source_name, descCol, amountCol) ==
    LET transaction_time == Strip(Get(row, TimeCol, <<>>))
        primary          == Strip(Get(row, descCol, <<>>))
        description      == IF primary # <<>> THEN primary
                            ELSE Strip(Get(row, RemarkCol, <<>>))
        transaction_type == NormalizeType(Get(row, TypeCol, <<>>))
        amount           == NormalizeAmount(Get(row, amountCol, <<"0">>))
    IN  IF transaction_time = <<>> THEN Skipped
        ELSE IF ~amount.ok
        THEN [kind |-> "error", record |-> <<>>, text |-> amount.text]
        ELSE [kind |-> "emit", text |-> <<>>,
              record |-> <<[transaction_time |-> transaction_time,
                            counterparty     |-> Strip(Get(row, CounterpartyCol, <<>>)),
                            transaction_type |-> transaction_type,
                            description      |-> description,
                            amount           |-> amount.text,
                            source           |-> source_name,
                            report_time      |-> ConfigReportTime,
                            tag              |-> ConfigTag]>>]

\* The body shared by _parse_alipay_row and _parse_wechat_row, which differ in
\* the description column and the amount column: "skip" (return None),
\* "emit" with the TransactionRecord, or "error" when _normalize_amount raises
\* (with the raw amount text of the message).
MapRow(row, source_name, descCol, amountCol) ==
    LET transaction_time == Strip(Get(row, TimeCol, <<>>))
        primary          == Strip(Get(row, descCol, <<>>))
        description      == IF primary # <<>> THEN primary
                            ELSE Strip(Get(row, RemarkCol, <<>>))
        transaction_type == NormalizeType(Get(row, TypeCol, <<>>))
        amount           == NormalizeAmount(Get(row, amountCol, <<"0">>))
    IN  IF transaction_time = <<>> THEN Skipped
        ELSE IF transaction_type \notin {Income, Expense} THEN Skipped
        ELSE IF ~amount.ok
        THEN [kind |-> "error", record |-> <<>>, text |-> amount.text]
        ELSE [kind |-> "emit", text |-> <<>>,
              record |-> <<[transaction_time |-> transaction_time,
                            counterparty     |-> Strip(Get(row, CounterpartyCol, <<>>)),
                            transaction_type |-> transaction_type,
                            description      |-> description,
                            amount           |-> amount.text,
                            source           |-> source_name,
                            report_time      |-> ConfigReportTime,
                            tag              |-> ConfigTag]>>]

\* TransactionDataProcessor._parse_alipay_row
ParseAlipayRow(row, source_name) ==
    MapRow(row, source_name, AlipayDescCol, AlipayAmountCol)

\* TransactionDataProcessor._parse_wechat_row
ParseWechatRow(row, source_name) ==
    MapRow(row, source_name, WechatDescCol, WechatAmountCol)

\* parser = self._parse_alipay_row if schema == "alipay" else self._parse_wechat_row
ParserFor(schema, row, source_name) ==
    IF schema = "alipay" THEN ParseAlipayRow(row, source_name)
    ELSE ParseWechatRow(row, source_name)

\* --------------------------------------------------- the files of a run
HeaderAlipay ==
    <<TimeCol, CounterpartyCol, AlipayDescCol, TypeCol, AlipayAmountCol, RemarkCol>>

HeaderWechat ==
    <<TimeCol, CounterpartyCol, WechatDescCol, TypeCol, WechatAmountCol, RemarkCol>>

HeaderBoth == <<TimeCol, TypeCol, AlipayAmountCol, WechatAmountCol>>

HeaderPaddedAlipay == <<TimeCol, TypeCol, <<" ">> \o AlipayAmountCol>>

HeaderAlipayPaddedWechat ==
    <<TimeCol, TypeCol, AlipayAmountCol, WechatAmountCol \o <<" ">> >>

HeaderForeign == << <<"d", "a", "t", "e">>, <<"a", "m", "o", "u", "n", "t">> >>

\* The header rows a file of the run may have (an empty file has none).  The
\* first file of a run of process() alone draws from all of them, the other
\* files from the two vendor headers and a foreign one.
HeaderChoices(e, first) ==
    IF e = "process" /\ first
    THEN {HeaderAlipay, HeaderWechat, HeaderBoth, HeaderPaddedAlipay,
          HeaderAlipayPaddedWechat, HeaderForeign, <<>>}
    ELSE {HeaderAlipay, HeaderWechat, HeaderForeign}

\* The data rows a file may hold, by the cells of their columns; the time
\* cell is "stamp" (the position of the row in the run), "padded" (the same
\* between spaces) or "blank".
RowTemplates(e) ==
    {[time |-> "stamp", type |-> Expense, amount |-> <<"1", ".", "5">>,
      desc |-> <<"d">>, remark |-> <<>>],
     [time |-> "padded", type |-> <<" ">> \o Income \o <<" ">>,
      amount |-> <<"¥", "1", ",", "0", "0", "0">>,
      desc |-> <<" ">>, remark |-> <<"r">>],
     [time |-> "stamp", type |-> Expense, amount |-> <<"a", "b", "c">>,
      desc |-> <<"d">>, remark |-> <<>>]}
    \cup
    (IF e = "process"
     THEN {[time |-> "blank", type |-> Expense, amount |-> <<"a", "b", "c">>,
            desc |-> <<"d">>, remark |-> <<>>],
           [time |-> "stamp", type |-> Uncounted, amount |-> <<"a", "b", "c">>,
            desc |-> <<"d">>, remark |-> <<>>]}
     ELSE {})

\* The text of the time cell of the row at position <<source, file, row>>.
TimeStamp(pos) ==
    <<"t">> \o NatToDigits(pos[1]) \o NatToDigits(pos[2]) \o NatToDigits(pos[3])

\* The position a stamped transaction_time was read at.
PositionOf(transaction_time) ==
    <<DigitVal(transaction_time[2]), DigitVal(transaction_time[3]),
      DigitVal(transaction_time[4])>>

\* One row of csv.DictReader: a cell for every name of the header.
RawRow(header, tpl, pos) ==
    [h \in Range(header) |->
        LET col == Strip(h)
        IN  IF col = TimeCol
            THEN (IF tpl.time = "blank" THEN <<" ">>
                  ELSE IF tpl.time = "padded" THEN <<" ">> \o TimeStamp(pos) \o <<" ">>
                  ELSE TimeStamp(pos))
            ELSE IF col = CounterpartyCol THEN <<"c">>
            ELSE IF col \in {AlipayDescCol, WechatDescCol} THEN tpl.desc
            ELSE IF col = RemarkCol THEN tpl.remark
            ELSE IF col = TypeCol THEN tpl.type
            ELSE IF col \in {AlipayAmountCol, WechatAmountCol} THEN tpl.amount
            ELSE <<>>]

\* The configurations of data_sources: the number of paths of each source.
Shapes == {<<>>, <<0, 1>>, <<2, 1>>}

\* An output file left by an earlier run.
OldFile ==
    [header |-> OUTPUT_FIELDS \o ANNOTATION_FIELDS,
     rows   |-> <<[transaction_time |-> <<"o", "l", "d">>]>>]

\* CATEGORY_LABELS
CategoryLabel(id) ==
    CASE id = 0 -> Income
      [] id = 1 -> Dining
      [] id = 2 -> Transport
      [] id = 3 -> <<"ju", "zhu4">>
      [] id = 4 -> <<"gou", "wu">>
      [] id = 5 -> <<"yu", "le">>
      [] id = 6 -> OtherTag

\* What one call of annotator.annotate may do: raise OllamaAnnotationError, or
\* return a category of CATEGORY_LABELS.
ClassifierAnswers ==
    {[ok |-> FALSE, category_id |-> 0],
     [ok |-> TRUE, category_id |-> 1],
     [ok |-> TRUE, category_id |-> 6]}

\* row = asdict(record) with the three annotation columns and the tag set.
AnnotatedRow(record, answer) ==
    [k \in DOMAIN record \cup Range(ANNOTATION_FIELDS) |->
        IF k = "category_id" THEN NatToDigits(answer.category_id)
        ELSE IF k = "category_name" THEN CategoryLabel(answer.category_id)
        ELSE IF k = "category_reason" THEN <<"r">>
        ELSE IF k = "tag" THEN CategoryLabel(answer.category_id)
        ELSE record[k]]

Fail(kind, detail) == <<[kind |-> kind, detail |-> detail]>>

InitPipeline ==
    /\ AmtIdle /\ AggIdle
    /\ entry \in {"process", "pipeline"}
    /\ shape \in Shapes
    /\ pc = "parse" /\ error = <<>>
    /\ srcIdx = 1 /\ fileIdx = 1 /\ rowIdx = 0 /\ totalRows = 0
    /\ fileHeader = <<>> /\ fileSchema = "none" /\ detectCalls = 0
    /\ fileRecords = <<>> /\ records = <<>>
    /\ lastRow = <<>> /\ lastOutcome = "none"
    /\ filesParsed = 0 /\ emitted = 0
    /\ outInitial \in {<<>>, <<OldFile>>}
    /\ outFile = outInitial
    /\ annotated = <<>> /\ annotateCalls = 0 /\ written = 0

\* `for source_name, raw_paths in data_sources.items()`: the paths of the
\* source are exhausted, the outer loop takes the next source.
NextSource ==
    /\ pc = "parse"
    /\ srcIdx <= Len(shape) /\ fileIdx > shape[srcIdx]
    /\ srcIdx' = srcIdx + 1
    /\ fileIdx' = 1
    /\ UNCHANGED <<entry, shape, pc, error, rowIdx, totalRows, fileHeader,
                   fileSchema, detectCalls, fileRecords, records, lastRow,
                   lastOutcome, filesParsed, emitted, outInitial, outFile,
                   annotated, annotateCalls, written, amtVars, aggVars>>

\* _parse_file up to its loop: the existence check, the header, the schema.
ParseFileOpen ==
    /\ pc = "parse"
    /\ srcIdx <= Len(shape) /\ fileIdx <= shape[srcIdx]
    /\ \E exists \in BOOLEAN, header \in HeaderChoices(entry, filesParsed = 0) :
        IF ~exists
        THEN /\ pc' = "failed"
             /\ error' = Fail("MissingFile", <<srcIdx, fileIdx>>)
             /\ UNCHANGED <<fileHeader, fileSchema, detectCalls>>
        ELSE /\ detectCalls' = detectCalls + 1
             /\ fileHeader' = header
             /\ fileSchema' = DetectSchema(header)
             /\ IF DetectSchema(header) = "error"
                THEN /\ pc' = "failed"
                     /\ error' = Fail("UnrecognizedSchema", <<>>)
                ELSE /\ pc' = "rows"
                     /\ error' = error
    /\ UNCHANGED <<entry, shape, srcIdx, fileIdx, rowIdx, totalRows,
                   fileRecords, records, lastRow, lastOutcome, filesParsed,
                   emitted, outInitial, outFile, annotated, annotateCalls,
                   written, amtVars, aggVars>>

\* One iteration of `for row in reader` in _parse_file.
ParseRow ==
    /\ pc = "rows"
    /\ totalRows < MaxTotalRows
    /\ \E tpl \in RowTemplates(entry) :
        LET row == RawRow(fileHeader, tpl, <<srcIdx, fileIdx, rowIdx + 1>>)
            out == ParserFor(fileSchema, row, SourceName(srcIdx))
        IN  /\ lastRow' = <<row>>
            /\ lastOutcome' = out.kind
            /\ fileRecords' =
                 IF out.kind = "emit" THEN Append(fileRecords, out.record[1])
                 ELSE fileRecords
            /\ emitted' = IF out.kind = "emit" THEN emitted + 1 ELSE emitted
            /\ pc' = IF out.kind = "error" THEN "failed" ELSE "rows"
            /\ error' = IF out.kind = "error"
                        THEN Fail("InvalidAmount", out.text) ELSE error
    /\ rowIdx' = rowIdx + 1
    /\ totalRows' = totalRows + 1
    /\ UNCHANGED <<entry, shape, srcIdx, fileIdx, fileHeader, fileSchema,
                   detectCalls, records, filesParsed, outInitial, outFile,
                   annotated, annotateCalls, written, amtVars, aggVars>>

\* process() with records.extend replaced by an insertion at the front.
ParseFileEndPrepend ==
    /\ pc = "rows"
    /\ pc' = "parse"
    /\ records' = fileRecords \o records
    /\ fileRecords' = <<>>
    /\ fileIdx' = fileIdx + 1
    /\ filesParsed' = filesParsed + 1
    /\ fileHeader' = <<>> /\ fileSchema' = "none" /\ detectCalls' = 0
    /\ rowIdx' = 0 /\ lastRow' = <<>> /\ lastOutcome' = "none"
    /\ UNCHANGED <<entry, shape, error, srcIdx, totalRows, emitted, outInitial,
                   outFile, annotated, annotateCalls, written, amtVars, aggVars>>

\* process() that rewrites the output file after every parsed file.
ParseFileEndFlush ==
    /\ pc = "rows"
    /\ pc' = "parse"
    /\ records' = records \o fileRecords
    /\ outFile' = <<[header |-> OUTPUT_FIELDS, rows |-> records']>>
    /\ fileRecords' = <<>>
    /\ fileIdx' = fileIdx + 1
    /\ filesParsed' = filesParsed + 1
    /\ fileHeader' = <<>> /\ fileSchema' = "none" /\ detectCalls' = 0
    /\ rowIdx' = 0 /\ lastRow' = <<>> /\ lastOutcome' = "none"
    /\ UNCHANGED <<entry, shape, error, srcIdx, totalRows, emitted, outInitial,
                   annotated, annotateCalls, written, amtVars, aggVars>>

\* The reader is exhausted: _parse_file returns its list and process()
\* extends `records` with it (transactions.py lines 80 and 131).
ParseFileEnd ==
    /\ pc = "rows"
    /\ pc' = "parse"
    /\ records' = records \o fileRecords
    /\ fileRecords' = <<>>
    /\ fileIdx' = fileIdx + 1
    /\ filesParsed' = filesParsed + 1
    /\ fileHeader' = <<>> /\ fileSchema' = "none" /\ detectCalls' = 0
    /\ rowIdx' = 0 /\ lastRow' = <<>> /\ lastOutcome' = "none"
    /\ UNCHANGED <<entry, shape, error, srcIdx, totalRows, emitted, outInitial,
                   outFile, annotated, annotateCalls, written, amtVars, aggVars>>

\* _write_output: the file is opened for writing (created or truncated) and
\* the header is written.
WriteOpen ==
    /\ pc = "parse"
    /\ srcIdx > Len(shape)
    /\ pc' = "write"
    /\ outFile' = <<[header |-> OUTPUT_FIELDS, rows |-> <<>>]>>
    /\ written' = 0
    /\ UNCHANGED <<entry, shape, error, srcIdx, fileIdx, rowIdx, totalRows,
                   fileHeader, fileSchema, detectCalls, fileRecords, records,
                   lastRow, lastOutcome, filesParsed, emitted, outInitial,
                   annotated, annotateCalls, amtVars, aggVars>>

\* _write_output that writes the header and leaves the records out.
WriteRowSkip ==
    /\ pc = "write"
    /\ written < Len(records)
    /\ written' = written + 1
    /\ UNCHANGED <<entry, shape, pc, error, srcIdx, fileIdx, rowIdx, totalRows,
                   fileHeader, fileSchema, detectCalls, fileRecords, records,
                   lastRow, lastOutcome, filesParsed, emitted, outInitial,
                   outFile, annotated, annotateCalls, amtVars, aggVars>>

\* _write_output: writer.writerow(asdict(record)) for the next record.
WriteRow ==
    /\ pc = "write"
    /\ written < Len(records)
    /\ outFile' = <<[outFile[1] EXCEPT !.rows = Append(@, records[written + 1])]>>
    /\ written' = written + 1
    /\ UNCHANGED <<entry, shape, pc, error, srcIdx, fileIdx, rowIdx, totalRows,
                   fileHeader, fileSchema, detectCalls, fileRecords, records,
                   lastRow, lastOutcome, filesParsed, emitted, outInitial,
                   annotated, annotateCalls, amtVars, aggVars>>

\* _write_output returns and so does process(): transactions.main is done,
\* run_pipeline goes on to annotate.
WriteClose ==
    /\ pc = "write"
    /\ written = Len(records)
    /\ pc' = IF entry = "process" THEN "done" ELSE "annotate"
    /\ written' = 0
    /\ UNCHANGED <<entry, shape, error, srcIdx, fileIdx, rowIdx, totalRows,
                   fileHeader, fileSchema, detectCalls, fileRecords, records,
                   lastRow, lastOutcome, filesParsed, emitted, outInitial,
                   outFile, annotated, annotateCalls, amtVars, aggVars>>

\* _annotate_records whose except clause keeps the record without its
\* annotation and goes on.
AnnotateRecordSwallow ==
    /\ pc = "annotate"
    /\ annotateCalls < Len(records)
    /\ \E answer \in ClassifierAnswers :
        LET record == records[annotateCalls + 1]
        IN  annotated' = Append(annotated,
                IF answer.ok THEN AnnotatedRow(record, answer) ELSE record)
    /\ annotateCalls' = annotateCalls + 1
    /\ UNCHANGED <<entry, shape, pc, error, srcIdx, fileIdx, rowIdx, totalRows,
                   fileHeader, fileSchema, detectCalls, fileRecords, records,
                   lastRow, lastOutcome, filesParsed, emitted, outInitial,
                   outFile, written, amtVars, aggVars>>

\* One iteration of `for record in records` in _annotate_records.
AnnotateRecord ==
    /\ pc = "annotate"
    /\ annotateCalls < Len(records)
    /\ \E answer \in ClassifierAnswers :
        LET record == records[annotateCalls + 1]
        IN  IF answer.ok
            THEN /\ annotated' = Append(annotated, AnnotatedRow(record, answer))
                 /\ UNCHANGED <<pc, error>>
            ELSE /\ pc' = "failed"
                 /\ error' = Fail("ClassificationFailure", record)
                 /\ UNCHANGED annotated
    /\ annotateCalls' = annotateCalls + 1
    /\ UNCHANGED <<entry, shape, srcIdx, fileIdx, rowIdx, totalRows,
                   fileHeader, fileSchema, detectCalls, fileRecords, records,
                   lastRow, lastOutcome, filesParsed, emitted, outInitial,
                   outFile, written, amtVars, aggVars>>

\* _annotate_records returns; _write_annotated_csv opens the same path for
\* writing and writes the header with the annotation columns.
WriteAnnotatedOpen ==
    /\ pc = "annotate"
    /\ annotateCalls = Len(records)
    /\ pc' = "write_annotated"
    /\ outFile' = <<[header |-> OUTPUT_FIELDS \o ANNOTATION_FIELDS, rows |-> <<>>]>>
    /\ written' = 0
    /\ UNCHANGED <<entry, shape, error, srcIdx, fileIdx, rowIdx, totalRows,
                   fileHeader, fileSchema, detectCalls, fileRecords, records,
                   lastRow, lastOutcome, filesParsed, emitted, outInitial,
                   annotated, annotateCalls, amtVars, aggVars>>

\* writer.writerows(rows): the next row.
WriteAnnotatedRow ==
    /\ pc = "write_annotated"
    /\ written < Len(annotated)
    /\ outFile' = <<[outFile[1] EXCEPT !.rows = Append(@, annotated[written + 1])]>>
    /\ written' = written + 1
    /\ UNCHANGED <<entry, shape, pc, error, srcIdx, fileIdx, rowIdx, totalRows,
                   fileHeader, fileSchema, detectCalls, fileRecords, records,
                   lastRow, lastOutcome, filesParsed, emitted, outInitial,
                   annotated, annotateCalls, amtVars, aggVars>>

\* _write_annotated_csv returns and run_pipeline returns the path.
WriteAnnotatedClose ==
    /\ pc = "write_annotated"
    /\ written = Len(annotated)
    /\ pc' = "done"
    /\ UNCHANGED <<entry, shape, error, srcIdx, fileIdx, rowIdx, totalRows,
                   fileHeader, fileSchema, detectCalls, fileRecords, records,
                   lastRow, lastOutcome, filesParsed, emitted, outInitial,
                   outFile, annotated, annotateCalls, written, amtVars, aggVars>>

Next ==
    \/ NextSource
    \/ ParseFileOpen
    \/ ParseRow
    \/ ParseFileEnd
    \/ WriteOpen
    \/ WriteRow
    \/ WriteClose
    \/ AnnotateRecord
    \/ WriteAnnotatedOpen
    \/ WriteAnnotatedRow
    \/ WriteAnnotatedClose

Spec == InitPipeline /\ [][Next]_vars

\* ------------------------------------------------------------ C4 .. C8
RECURSIVE SumSeq(_)
SumSeq(s) == IF s = <<>> THEN 0 ELSE s[1] + SumSeq(Tail(s))

\* The errors _parse_file can end the run with.
ParseErrors == {"MissingFile", "UnrecognizedSchema", "InvalidAmount"}

\* The run has opened the output file for writing.
OutputTouched == outFile # outInitial

\* C4: process() writes the output only after every file of every source has
\* been parsed: a run ended by a missing file, an unrecognized header or an
\* invalid amount has neither created nor modified the output file, and an
\* output written by the run implies that every file was parsed.
C4_OutputOnlyAfterAllParsed ==
    /\ (error # <<>> /\ error[1].kind \in ParseErrors) =>
           (pc = "failed" /\ outFile = outInitial)
    /\ pc \in {"parse", "rows"} => outFile = outInitial
    /\ OutputTouched =>
           /\ srcIdx > Len(shape)
           /\ filesParsed = SumSeq(shape)
           /\ fileRecords = <<>>
           /\ outFile[1].header \in {OUTPUT_FIELDS, OUTPUT_FIELDS \o ANNOTATION_FIELDS}
           /\ (error # <<>> => error[1].kind \notin ParseErrors)
    /\ (entry = "process" /\ OutputTouched) => error = <<>>

\* C4 witness: the second file of a run has an invalid amount after the first
\* file gave records; an output file of an earlier run is still as it was.
C4_Witness ==
    /\ pc = "failed"
    /\ error # <<>> /\ error[1].kind = "InvalidAmount"
    /\ filesParsed >= 1
    /\ records # <<>>
    /\ outInitial = <<OldFile>>
    /\ outFile = <<OldFile>>

Categorized(row) == "category_name" \in DOMAIN row

\* The file holds both rows with and rows without a category.
Mixed(file) ==
    /\ file # <<>>
    /\ \E i, j \in 1..Len(file[1].rows) :
          Categorized(file[1].rows[i]) /\ ~Categorized(file[1].rows[j])

ClassificationFailed == error # <<>> /\ error[1].kind = "ClassificationFailure"

\* C5: a failed classification ends run_pipeline: the failing call is the last
\* call made, no annotated row is in the file, and the file never holds both
\* categorized and uncategorized rows; annotated rows are written only when
\* every record has been classified.
C5_FailedClassificationAborts ==
    /\ ClassificationFailed =>
          /\ pc = "failed"
          /\ annotateCalls = Len(annotated) + 1
          /\ annotateCalls <= Len(records)
          /\ error[1].detail = records[annotateCalls]
          /\ outFile # <<>>
          /\ \A i \in 1..Len(outFile[1].rows) : ~Categorized(outFile[1].rows[i])
    /\ ~Mixed(outFile)
    /\ (outFile # <<>> /\ \E i \in 1..Len(outFile[1].rows) :
                               Categorized(outFile[1].rows[i]))
          => /\ error = <<>>
             /\ annotateCalls = Len(records)
             /\ Len(annotated) = Len(records)
             /\ pc \in {"write_annotated", "done"}

\* C5 witness: the second of three records fails to classify after the first
\* was classified.
C5_Witness ==
    /\ ClassificationFailed
    /\ Len(records) = 3
    /\ annotateCalls = 2
    /\ Len(annotated) = 1

\* Position p is before position q: source, then file, then row.
PosBefore(p, q) ==
    \/ p[1] < q[1]
    \/ p[1] = q[1] /\ p[2] < q[2]
    \/ p[1] = q[1] /\ p[2] = q[2] /\ p[3] < q[3]

\* C6: the records process() returns and writes are the emitted records in
\* source order, then file order, then row order: none is lost, added or moved.
C6_RecordsInSourceFileRowOrder ==
    LET all == records \o fileRecords
    IN  /\ \A i, j \in 1..Len(all) : i < j =>
              PosBefore(PositionOf(all[i].transaction_time),
                        PositionOf(all[j].transaction_time))
        /\ \A i \in 1..Len(all) :
              all[i].source = SourceName(PositionOf(all[i].transaction_time)[1])
        /\ Len(all) = emitted
        /\ pc = "write" => outFile[1].rows = SubSeq(records, 1, written)
        /\ (entry = "process" /\ pc = "done") => outFile[1].rows = records
        /\ (entry = "pipeline" /\ pc \in {"annotate", "failed"} /\ OutputTouched)
              => outFile[1].rows = records

\* C6 witness: process() has written three records that come from two
\* sources and from two files of the first source, and one row was skipped.
C6_Witness ==
    /\ entry = "process" /\ pc = "done"
    /\ Len(outFile[1].rows) = 3
    /\ totalRows = 4
    /\ PositionOf(outFile[1].rows[1].transaction_time)[2] = 1
    /\ PositionOf(outFile[1].rows[2].transaction_time) = <<1, 2, 1>>
    /\ PositionOf(outFile[1].rows[3].transaction_time)[1] = 2

\* The row passes the two filters of the field mapper.
PassesFilters(row) ==
    /\ Strip(Get(row, TimeCol, <<>>)) # <<>>
    /\ NormalizeType(Get(row, TypeCol, <<>>)) \in {Income, Expense}

\* The text the parser of the schema gives to _normalize_amount.
AmountCell(row, schema) ==
    Get(row, IF schema = "alipay" THEN AlipayAmountCol ELSE WechatAmountCol, <<"0">>)

EmittedRecords ==
    Range(records) \cup Range(fileRecords)
      \cup (IF entry = "process" /\ OutputTouched THEN Range(outFile[1].rows) ELSE {})

\* C7 as claimed: a record is emitted for a row if and only if its time cell
\* is not blank and its normalized type is income or expense, and is skipped
\* otherwise.
C7_EmitIffTimeAndType ==
    lastRow # <<>> =>
        /\ (lastOutcome = "emit") <=> PassesFilters(lastRow[1])
        /\ (lastOutcome # "emit") => lastOutcome = "skip"

\* C7 as amended: a row is skipped if and only if its time cell is blank or
\* its normalized type is neither income nor expense; a row that passes both
\* filters is emitted if and only if _normalize_amount accepts its amount
\* text, and ends the run with the invalid-amount error otherwise.  Every
\* record of the output has an income or expense type and a time that is not
\* blank.
C7_EmitIffFiltersAndAmount ==
    /\ lastRow # <<>> =>
          LET row == lastRow[1]
              ok  == NormalizeAmount(AmountCell(row, fileSchema)).ok
          IN  /\ (lastOutcome = "skip") <=> ~PassesFilters(row)
              /\ (lastOutcome = "emit") <=> (PassesFilters(row) /\ ok)
              /\ (lastOutcome = "error") <=> (PassesFilters(row) /\ ~ok)
              /\ (lastOutcome = "error") =>
                    (pc = "failed" /\ error[1].kind = "InvalidAmount")
    /\ \A r \in EmittedRecords :
          /\ r.transaction_type \in {Income, Expense}
          /\ Strip(r.transaction_time) # <<>>
          /\ r.transaction_time = Strip(r.transaction_time)

\* C7 witness: after a record was emitted, a row marked as not counted, with a
\* time and an amount text that is not a number, was skipped.
C7_Witness ==
    /\ lastRow # <<>>
    /\ lastOutcome = "skip"
    /\ Strip(Get(lastRow[1], TimeCol, <<>>)) # <<>>
    /\ NormalizeType(Get(lastRow[1], TypeCol, <<>>)) = Uncounted
    /\ fileRecords # <<>>
    /\ pc = "rows"

\* Once per file, before any row: rows are read only after the one call of
\* _detect_schema for the file has returned a schema.
DetectedOncePerFile ==
    /\ detectCalls <= 1
    /\ pc = "rows" => (detectCalls = 1 /\ fileSchema \in {"alipay", "wechat"})
    /\ rowIdx > 0 => (detectCalls = 1 /\ fileSchema \in {"alipay", "wechat"})
    /\ (error # <<>> /\ error[1].kind = "UnrecognizedSchema") =>
          (detectCalls = 1 /\ rowIdx = 0 /\ fileSchema = "error")

TrimmedNames == {Strip(fileHeader[i]) : i \in 1..Len(fileHeader)}

C12_NormalizeAmountIdempotent ==
    Len(amountOut) = 2 =>
        /\ amountOut[2].ok
        /\ amountOut[2].text = amountOut[1].text

\* C12 witness: "¥1.5" was normalized to "1.50" and that again to "1.50".
C12_Witness ==
    /\ amountIn = <<"¥", "1", ".", "5">>
    /\ Len(amountOut) = 2
    /\ amountOut[1].text = <<"1", ".", "5", "0">>
    /\ amountOut[2].text = <<"1", ".", "5", "0">>

\* -------------------------------------------------------------- C14
\* _normalize_type on its own, on every marker text up to MaxTypeLen
\* characters over the characters the function looks for, the blank, and one
\* character it does not look for.
MaxTypeLen == 4

TypeChars == {" ", "bu", "ji", "zhi", "shou", "ru", "x"}

TypeTexts == SeqsUpTo(TypeChars, MaxTypeLen)

InitType ==
    /\ typeIn \in TypeTexts
    /\ typeOut = <<>>
    /\ amountIn = <<>>
    /\ amountOut = <<>>
    /\ AggIdle
    /\ PipeIdle

ApplyNormalizeType ==
    /\ typeOut = <<>>
    /\ typeOut' = <<NormalizeType(typeIn)>>
    /\ UNCHANGED <<typeIn, amountIn, amountOut, aggVars, pipeVars>>

NextType == ApplyNormalizeType

SpecType == InitType /\ [][NextType]_vars

\* The text has the two characters of the not-counted marker side by side.
HasNotCounted(t) == \E i \in 1..(Len(t) - 1) : t[i] = "bu" /\ t[i + 1] = "ji"

HasExpenseMark(t) == "zhi" \in Range(t)

HasIncomeMark(t) == "shou" \in Range(t) \/ "ru" \in Range(t)

\* C14: on the trimmed marker, in this order: an empty marker gives the
\* unclassified label, a marker with the not-counted marker gives Uncounted,
\* one with the expense marker gives Expense, one with an income marker gives
\* Income, and any other marker is returned trimmed and unchanged; so a marker
\* with the not-counted marker is never Income or Expense, and a marker with
\* both an expense and an income marker (and no not-counted marker) is Expense.
C14_TypePrecedence ==
    typeOut # <<>> =>
        LET t   == Strip(typeIn)
            out == typeOut[1]
        IN  /\ t = <<>> => out = Unknown
            /\ t # <<>> /\ HasNotCounted(t) => out = Uncounted
            /\ t # <<>> /\ ~HasNotCounted(t) /\ HasExpenseMark(t) => out = Expense
            /\ t # <<>> /\ ~HasNotCounted(t) /\ ~HasExpenseMark(t) /\ HasIncomeMark(t)
                   => out = Income
            /\ t # <<>> /\ ~HasNotCounted(t) /\ ~HasExpenseMark(t) /\ ~HasIncomeMark(t)
                   => out = t
            /\ HasNotCounted(t) => out \notin {Income, Expense}
            /\ ~HasNotCounted(t) /\ HasExpenseMark(t) /\ HasIncomeMark(t)
                   => out = Expense

\* C14 witness: " 收支" holds an income and the expense marker and came out
\* as Expense.
C14_Witness ==
    /\ typeIn = <<" ", "shou", "zhi">>
    /\ typeOut = <<Expense>>

\* -------------------------------------------------------------- C13
\* A step of the fold that took one row and went on to the next.
FoldStep ==
    /\ aggPc = "fold"
    /\ aggPc' = "fold"
    /\ Len(aggRows') = Len(aggRows) + 1

\* The category a row carries: its tag, or its category_name when it has no
\* tag or an empty one; the empty text when it has neither.
RecordCategory(row) ==
    IF "tag" \in DOMAIN row /\ row["tag"] # <<>> THEN row["tag"]
    ELSE IF "category_name" \in DOMAIN row /\ row["category_name"] # <<>>
         THEN row["category_name"]
    ELSE <<>>

\* The key of the summary an expense of this row belongs to.
SummaryKey(row) ==
    IF Range(RecordCategory(row)) \subseteq Whitespace THEN OtherTag
    ELSE Strip(RecordCategory(row))

SummaryNames(sums) == {sums[i].category_name : i \in 1..Len(sums)}

\* What the summaries hold for one key: empty when the key has no summary.
SummaryEntries(sums, key) ==
    {[total_amount |-> sums[i].total_amount, count |-> sums[i].count] :
        i \in {j \in 1..Len(sums) : sums[j].category_name = key}}

\* The entry of a key after one more expense: a fresh summary starts from 0.
EntryPlus(entries, amount) ==
    IF entries = {} THEN {[total_amount |-> amount, count |-> 1]}
    ELSE {[total_amount |-> e.total_amount + amount, count |-> e.count + 1] :
            e \in entries}

\* C13: a step of the fold has one of three effects, chosen by the trimmed
\* transaction_type. Income: amount added to total_income, income_count plus
\* one, nothing else of the totals, counts, summaries and expense rows moves.
\* Expense: amount added to total_expense, expense_count plus one, the one
\* summary keyed by the trimmed category (the fallback label when blank) gets
\* the amount and one more count while every other summary stays, and one
\* expense row is appended. Any other type: totals, counts, summaries and
\* expense rows unchanged.
C13_FoldStepFrame ==
    [][FoldStep =>
        LET row    == aggRows'[Len(aggRows')]
            type   == Strip(IF "transaction_type" \in DOMAIN row
                            THEN row["transaction_type"] ELSE <<>>)
            amount == DecimalCents(RowDecimal(row))
            key    == SummaryKey(row)
        IN  /\ type = Income =>
                /\ total_income' = total_income + amount
                /\ income_count' = income_count + 1
                /\ UNCHANGED <<total_expense, expense_count, summaries, expense_rows>>
            /\ type = Expense =>
                /\ total_expense' = total_expense + amount
                /\ expense_count' = expense_count + 1
                /\ UNCHANGED <<total_income, income_count>>
                /\ Len(summaries') = Cardinality(SummaryNames(summaries'))
                /\ SummaryNames(summaries') = SummaryNames(summaries) \cup {key}
                /\ \A k \in SummaryNames(summaries') :
                       SummaryEntries(summaries', k) =
                           IF k = key
                           THEN EntryPlus(SummaryEntries(summaries, k), amount)
                           ELSE SummaryEntries(summaries, k)
                /\ Len(expense_rows') = Len(expense_rows) + 1
                /\ SubSeq(expense_rows', 1, Len(expense_rows)) = expense_rows
                /\ expense_rows'[Len(expense_rows')].tag = key
                /\ expense_rows'[Len(expense_rows')].amount = amount
            /\ type \notin {Income, Expense} =>
                UNCHANGED <<total_income, income_count, total_expense,
                            expense_count, summaries, expense_rows>>
    ]_vars

\* C13 witness: the fold has taken an income, an expense whose tag is blank
\* (summarized under the fallback label though it has a category_name) and a
\* row of another type.
C13_Witness ==
    /\ aggPc = "fold"
    /\ Len(aggRows) = 3
    /\ income_count = 1
    /\ expense_count = 1
    /\ \E i \in 1..3 : RowType(aggRows[i]) = Uncounted
    /\ \E i \in 1..3 : Get(aggRows[i], "tag", <<>>) = <<" ">>
    /\ summaries = <<[category_name |-> OtherTag, total_amount |-> 3700, count |-> 1]>>
    /\ Len(expense_rows) = 1

\* -------------------------------------------------------------- C11
\* What the message of the error that ended the run has to name, by the kind
\* of the error, for the input at fault to be identified from it.
CarriesOffendingInput ==
    LET e == error[1]
    IN  CASE e.kind = "MissingFile" -> e.detail = <<srcIdx, fileIdx>>
          [] e.kind = "UnrecognizedSchema" ->
                 e.detail = fileHeader \/ e.detail = <<srcIdx, fileIdx>>
          [] e.kind = "InvalidAmount" ->
                 /\ lastRow # <<>>
                 /\ e.detail = AmountCell(lastRow[1], fileSchema)
          [] e.kind = "ClassificationFailure" ->
                 /\ annotateCalls \in 1..Len(records)
                 /\ e.detail = records[annotateCalls]

\* C11: every fatal error carries the input at fault: a missing file its
\* path, an unrecognized header the header list or the path of the file, an
\* invalid amount the original amount text, a failed classification the
\* record; and the run stops there, with nothing retried: each file is opened
\* and the classifier called at most once per file and per record.
C11_ErrorsCarryOffendingInput ==
    error # <<>> =>
        /\ pc = "failed"
        /\ CarriesOffendingInput
        /\ detectCalls <= filesParsed + 1
        /\ annotateCalls <= Len(records)

\* -------------------------------------------------------------- C15
\* The output file holds the normalized CSV in full: the header of
\* OUTPUT_FIELDS and every record, none with annotation columns.
NormalizedCsvInFull ==
    /\ outFile = <<[header |-> OUTPUT_FIELDS, rows |-> records]>>
    /\ \A i \in 1..Len(records) : ~Categorized(records[i])

\* C15: run_pipeline has the normalized CSV in the output file before the
\* first classification call and rewrites the file with the annotation columns
\* only after every record was classified; a failed classification ends the
\* run in error with the file holding the normalized CSV in full, so a file at
\* the output path does not tell that the annotation succeeded.
C15_NormalizedCsvBeforeAnnotation ==
    entry = "pipeline" =>
        /\ pc = "annotate" => NormalizedCsvInFull
        /\ annotateCalls > 0 /\ pc \in {"annotate", "failed"} => NormalizedCsvInFull
        /\ ClassificationFailed => pc = "failed" /\ NormalizedCsvInFull
        /\ (outFile # <<>> /\ outFile[1].header # OUTPUT_FIELDS /\ outFile # outInitial) =>
               /\ outFile[1].header = OUTPUT_FIELDS \o ANNOTATION_FIELDS
               /\ annotateCalls = Len(records)
               /\ Len(annotated) = Len(records)
               /\ error = <<>>

\* C15 witness: no file was at the output path before the run; the first
\* classification call failed, and the path holds the two normalized records.
C15_Witness ==
    /\ entry = "pipeline"
    /\ ClassificationFailed
    /\ outInitial = <<>>
    /\ annotateCalls = 1
    /\ Len(records) = 2
    /\ outFile # <<>>
    /\ outFile[1].header = OUTPUT_FIELDS
    /\ Len(outFile[1].rows) = 2

====
